---- MODULE Spec2Model ----
(***************************************************************************)
(* newsrag: the streaming citation pipeline of src/newsrag/generator.py    *)
(* and src/newsrag/pipelines.py.                                           *)
(*                                                                         *)
(*   SpecChan / FairChan : StreamingText (the token channel) between the   *)
(*                         generation worker started by run_async and the  *)
(*                         consumer loop that iterates over it.            *)
(*   SpecRewrite         : stream_sourced_output over a token stream cut   *)
(*                         from an input text, with transform_citations    *)
(*                         and Sources.add_source.                         *)
(*   SpecSources         : a Sources registry under direct add_source      *)
(*                         calls, kept across turns.                       *)
(*                                                                         *)
(* Text is a sequence of one-character strings.                            *)
(***************************************************************************)
EXTENDS Integers, Sequences, FiniteSets, TLC

VARIABLES
    \* ---- StreamingText and its two threads
    _done,      \* StreamingText._done
    _text,      \* StreamingText._text, the Queue, oldest first
    worker,     \* the pool worker of run_async: pending, running, finished, raised
    ppc,        \* the producer's position inside StreamingText.__call__
    calls,      \* every chunk handed to __call__ so far, in order
    pushed,     \* the contents put on the queue so far, in order
    cpc,        \* the consumer's position inside StreamingText.__next__
    received,   \* the values __next__ has returned so far, in order
    async_result, \* the AsyncResult of run_async: pending, value or error
    printed,    \* how many times error_callback has printed
    \* ---- stream_sourced_output
    documents,  \* the documents argument
    input,      \* the concatenation of the whole token stream
    pos,        \* how many characters of input the stream has delivered
    history,    \* the local history
    ref,        \* the local ref
    rpc,        \* loop, done (stream exhausted) or raised (exception escaped)
    err,        \* the exception that escaped, or "none"
    yields,     \* number of elements yielded so far
    sources0,   \* Sources._sources as it was when the generator was called
    one_bracket, \* TRUE while every token delivered held at most one "[" or "]"
    chunk_size, \* 0: the stream cuts its tokens anywhere; k: tokens of k characters
    parsed,     \* start, citations, end of one transform_citations(input) call
    \* ---- Sources
    _ids,       \* Sources._ids
    _sources,   \* Sources._sources
    addLog,     \* the direct add_source calls so far: document, result, turn
    turn,       \* the generation turn that currently uses the registry
    bibliography, \* whether generate_bibliography was called, and its last lines
    \* ---- two turns on one pipeline object
    streaming_callback, \* self.llm.streaming_callback: 0 or the streamer of a turn
    streamers,  \* streamer -> its _text, its _done and everything ever put on it
    turns,      \* turn -> its worker, the streamer its backend writes to, the
                \* streamer its stream_output reads, and what it has read
    \* ---- Feed
    feed,       \* subfeed name -> the entries parse_feed returns for its url
    deduplicated_documents \* whether get_documents was called, and its result

chanVars == <<_done, _text, worker, ppc, calls, pushed, cpc, received, async_result, printed>>
rwVars ==
    <<documents, input, pos, history, ref, rpc, err, yields, sources0,
      one_bracket, chunk_size, parsed>>
srcVars  == <<_ids, _sources, addLog, turn, bibliography>>
turnVars == <<streaming_callback, streamers, turns>>
feedVars == <<feed, deduplicated_documents>>
vars     == <<chanVars, rwVars, srcVars, turnVars, feedVars>>

(***************************************************************************)
(* Bounds                                                                  *)
(***************************************************************************)
MaxPushes == 3      \* chunks the backend hands to the callback in one run
MaxFrags  == 2      \* fragments concatenated into one input text
MaxAdds   == 4      \* direct add_source calls on one registry
MaxTurns  == 2      \* generation turns that share one registry
MaxEntries == 2     \* entries of one subfeed

(***************************************************************************)
(* Sequences of characters                                                 *)
(***************************************************************************)
Contains(s, ch) == \E i \in 1..Len(s) : s[i] = ch

IsPrefix(s, t) == Len(s) <= Len(t) /\ SubSeq(t, 1, Len(s)) = s

Digits == {"0", "1", "2", "3", "4", "5", "6", "7", "8", "9"}

DigitVal(ch) ==
    CASE ch = "0" -> 0 [] ch = "1" -> 1 [] ch = "2" -> 2 [] ch = "3" -> 3
      [] ch = "4" -> 4 [] ch = "5" -> 5 [] ch = "6" -> 6 [] ch = "7" -> 7
      [] ch = "8" -> 8 [] ch = "9" -> 9

DigitChar(d) == <<"0", "1", "2", "3", "4", "5", "6", "7", "8", "9">>[d + 1]

\* int(s) for a non-empty string of digits
RECURSIVE int(_)
int(s) ==
    IF Len(s) = 0 THEN 0
    ELSE 10 * int(SubSeq(s, 1, Len(s) - 1)) + DigitVal(s[Len(s)])

\* str(n) for n >= 0
RECURSIVE str(_)
str(n) == IF n < 10 THEN <<DigitChar(n)>> ELSE str(n \div 10) \o <<DigitChar(n % 10)>>

\* ','.join(str(n) for n in ns)
RECURSIVE join(_)
join(ns) ==
    IF Len(ns) = 0 THEN <<>>
    ELSE IF Len(ns) = 1 THEN str(ns[1])
    ELSE str(ns[1]) \o <<",">> \o join(Tail(ns))

(***************************************************************************)
(* StreamingText                                                           *)
(***************************************************************************)
Tokens == {"a", "b"}

\* the meta of a chunk: which completion keys it carries
Metas ==
    { [has_done |-> FALSE, done |-> FALSE, has_finish |-> FALSE],   \* neither key
      [has_done |-> TRUE,  done |-> FALSE, has_finish |-> FALSE],   \* ollama, running
      [has_done |-> TRUE,  done |-> TRUE,  has_finish |-> FALSE],   \* ollama, stop
      [has_done |-> FALSE, done |-> FALSE, has_finish |-> TRUE] }   \* finish_reason

\* the two tests of __call__
FinishKeyNeedsDone(meta) == meta.has_finish /\ meta.has_done
DoneKeySet(meta)   == meta.has_done /\ meta.done
FinishKeySet(meta) == meta.has_finish
IsTerminal(meta)   == DoneKeySet(meta) \/ FinishKeySet(meta)

TerminalCalled == \E i \in 1..Len(calls) : IsTerminal(calls[i].meta)

\* Queue.put and Queue.get on an unbounded FIFO queue
putFront(q, x) == <<x>> \o q
put(q, x) == Append(q, x)
get(q) == [item |-> Head(q), rest |-> Tail(q)]

chunk == calls[Len(calls)]

InitChannel ==
    /\ _done = FALSE
    /\ _text = <<>>
    /\ worker = "pending"
    /\ ppc = "idle"
    /\ calls = <<>>
    /\ pushed = <<>>
    /\ cpc = "l52"
    /\ received = <<>>
    /\ async_result = "pending"
    /\ printed = 0

\* the pool thread picks up self.run
WorkerStart ==
    /\ worker = "pending"
    /\ worker' = "running"
    /\ UNCHANGED <<feedVars, _done, _text, ppc, calls, pushed, cpc, received, async_result, printed, rwVars, srcVars, turnVars>>

\* the backend hands the next chunk to the streaming callback; the terminal
\* chunk is the last one of a run
Call(content, meta) ==
    /\ worker = "running"
    /\ ppc = "idle"
    /\ ~TerminalCalled
    /\ Len(calls) < MaxPushes
    /\ calls' = Append(calls, [content |-> content, meta |-> meta])
    /\ ppc' = "l40"
    /\ UNCHANGED <<feedVars, _done, _text, worker, pushed, cpc, received, async_result, printed, rwVars, srcVars, turnVars>>

\* if "done" in text_chunk.meta and text_chunk.meta["done"]: self._done = True
Call40 ==
    /\ ppc = "l40"
    /\ _done' = IF DoneKeySet(chunk.meta) THEN TRUE ELSE _done
    /\ ppc' = "l44"
    /\ UNCHANGED <<feedVars, _text, worker, calls, pushed, cpc, received, async_result, printed, rwVars, srcVars, turnVars>>

\* if "finish_reason" in text_chunk.meta: self._done = True
Call44 ==
    /\ ppc = "l44"
    /\ _done' = IF FinishKeySet(chunk.meta) THEN TRUE ELSE _done
    /\ ppc' = "l46"
    /\ UNCHANGED <<feedVars, _text, worker, calls, pushed, cpc, received, async_result, printed, rwVars, srcVars, turnVars>>

Call46NoPut ==
    /\ ppc = "l46"
    /\ _text' = IF _done THEN _text ELSE put(_text, chunk.content)
    /\ pushed' = IF _done THEN pushed ELSE Append(pushed, chunk.content)
    /\ ppc' = "idle"
    /\ UNCHANGED <<feedVars, _done, worker, calls, cpc, received, async_result, printed, rwVars, srcVars, turnVars>>

\* self._text.put(text_chunk.content)
Call46 ==
    /\ ppc = "l46"
    /\ _text' = put(_text, chunk.content)
    /\ pushed' = Append(pushed, chunk.content)
    /\ ppc' = "idle"
    /\ UNCHANGED <<feedVars, _done, worker, calls, cpc, received, async_result, printed, rwVars, srcVars, turnVars>>

\* self.run returns after the backend's terminal chunk; the pool stores the
\* return value in the AsyncResult
WorkerFinish ==
    /\ worker = "running"
    /\ ppc = "idle"
    /\ TerminalCalled
    /\ worker' = "finished"
    /\ async_result' = "value"
    /\ UNCHANGED <<feedVars, _done, _text, ppc, calls, pushed, cpc, received, printed, rwVars, srcVars, turnVars>>

WorkerRaiseNoCallback ==
    /\ worker = "running"
    /\ ppc = "idle"
    /\ worker' = "raised"
    /\ async_result' = "error"
    /\ UNCHANGED <<feedVars, _done, _text, ppc, calls, pushed, cpc, received, printed, rwVars, srcVars, turnVars>>

\* self.run raises between two callbacks; apply_async stores the exception
\* in the AsyncResult and calls error_callback, nothing touches the streamer
WorkerRaise ==
    /\ worker = "running"
    /\ ppc = "idle"
    /\ worker' = "raised"
    /\ async_result' = "error"
    /\ printed' = printed + 1
    /\ UNCHANGED <<feedVars, _done, _text, ppc, calls, pushed, cpc, received, rwVars, srcVars, turnVars>>

Next52Eager ==
    /\ cpc = "l52"
    /\ cpc' = IF _done \/ _text = <<>> THEN "stopped" ELSE "l54"
    /\ UNCHANGED <<feedVars, _done, _text, worker, ppc, calls, pushed, received, async_result, printed, rwVars, srcVars, turnVars>>

\* __next__: if self._done: raise StopIteration()
Next52 ==
    /\ cpc = "l52"
    /\ cpc' = IF _done THEN "stopped" ELSE "l54"
    /\ UNCHANGED <<feedVars, _done, _text, worker, ppc, calls, pushed, received, async_result, printed, rwVars, srcVars, turnVars>>

Next54Timeout ==
    /\ cpc = "l54"
    /\ IF _text # <<>>
       THEN /\ received' = Append(received, get(_text).item)
            /\ _text' = get(_text).rest
            /\ cpc' = "l52"
       ELSE /\ cpc' = "stopped"
            /\ UNCHANGED <<received, _text>>
    /\ UNCHANGED <<feedVars, _done, worker, ppc, calls, pushed, async_result, printed, rwVars, srcVars, turnVars>>

\* __next__: return self._text.get()   (blocks while the queue is empty)
Next54 ==
    /\ cpc = "l54"
    /\ _text # <<>>
    /\ received' = Append(received, get(_text).item)
    /\ _text' = get(_text).rest
    /\ cpc' = "l52"
    /\ UNCHANGED <<feedVars, _done, worker, ppc, calls, pushed, async_result, printed, rwVars, srcVars, turnVars>>

\* summarise, after its streaming loop: pipeline_result = async_result.get(),
\* which waits for the worker and re-raises what self.run raised
Get135 ==
    /\ cpc = "stopped"
    /\ async_result # "pending"
    /\ cpc' = IF async_result = "error" THEN "get_raised" ELSE "returned"
    /\ UNCHANGED <<feedVars, _done, _text, worker, ppc, calls, pushed, received, async_result, printed, rwVars, srcVars, turnVars>>

(***************************************************************************)
(* transform_citations                                                     *)
(***************************************************************************)
Max(S) == CHOOSE x \in S : \A y \in S : y <= x

ARTICLE == <<"A", "R", "T", "I", "C", "L", "E">>

\* the characters \s matches
Whitespace == {" ", "\n", "\t"}

\* re.match(r"(.*\[)(.+)(\].*)", citation, flags=re.DOTALL): the greedy first
\* group ends at the last "[" that still leaves one character and a "]" after
\* it, the greedy second group runs up to the last "]" of the string
LastClose(s) == LET R == {j \in 1..Len(s) : s[j] = "]"} IN IF R = {} THEN 0 ELSE Max(R)
Opens(s) == {i \in 1..Len(s) : s[i] = "[" /\ i + 2 <= LastClose(s)}

\* ARTICLE\s\d at position p
ArticleAt(s, p) ==
    /\ p + 8 <= Len(s)
    /\ SubSeq(s, p, p + 6) = ARTICLE
    /\ s[p + 7] \in Whitespace
    /\ s[p + 8] \in Digits

\* the end of the greedy \d+ that starts at p
DigitsEnd(s, p) == Max({e \in p..Len(s) : \A k \in p..e : s[k] \in Digits})

\* one match of (?:ARTICLE\s(\d+))+ starting at p: the group repeats while
\* another ARTICLE\s\d follows directly, and captures its last repetition
RECURSIVE MatchAt(_, _)
MatchAt(s, p) ==
    LET e == DigitsEnd(s, p + 8)
    IN  IF ArticleAt(s, e + 1) THEN MatchAt(s, e + 1)
        ELSE [end |-> e, cap |-> SubSeq(s, p + 8, e)]

\* re.findall(r"(?:ARTICLE\s(\d+))+", content), scanning from p
RECURSIVE findall(_, _)
findall(s, p) ==
    IF p > Len(s) THEN <<>>
    ELSE IF ArticleAt(s, p)
         THEN LET m == MatchAt(s, p) IN <<m.cap>> \o findall(s, m.end + 1)
         ELSE findall(s, p + 1)

transform_citations(citation) ==
    IF Opens(citation) = {}
    THEN [raised |-> TRUE, start |-> <<>>, numbers |-> <<>>, end |-> <<>>]
    ELSE LET i == Max(Opens(citation))
             j == LastClose(citation)
             content == SubSeq(citation, i + 1, j - 1)
             m == findall(content, 1)
         IN  [raised  |-> FALSE,
              start   |-> SubSeq(citation, 1, i),
              numbers |-> [k \in 1..Len(m) |-> int(m[k])],
              end     |-> SubSeq(citation, j, Len(citation))]

(***************************************************************************)
(* Sources                                                                 *)
(***************************************************************************)
\* a Document: its id and its display metadata
Meta(title) == [title |-> title, link |-> "link of " \o title, vendor |-> "vendor of " \o title]
DA  == [id |-> "d1", meta |-> Meta("A")]
DA2 == [id |-> "d1", meta |-> Meta("A again")]
DB  == [id |-> "d2", meta |-> Meta("B")]
DocPool == {DA, DA2, DB}

add_source_no_lookup(ids, sources, document) ==
    [ids |-> Append(ids, document.id), sources |-> Append(sources, document),
     ret |-> Len(sources) + 1]

add_source_forgets_id(ids, sources, document) ==
    IF \E i \in 1..Len(ids) : ids[i] = document.id
    THEN [ids |-> ids, sources |-> sources,
          ret |-> CHOOSE i \in 1..Len(ids) : ids[i] = document.id]
    ELSE [ids |-> ids, sources |-> Append(sources, document), ret |-> Len(sources) + 1]

add_source_prepend(ids, sources, document) ==
    IF \E i \in 1..Len(ids) : ids[i] = document.id
    THEN [ids |-> ids, sources |-> sources,
          ret |-> CHOOSE i \in 1..Len(ids) : ids[i] = document.id]
    ELSE [ids |-> <<document.id>> \o ids, sources |-> <<document>> \o sources, ret |-> 1]

\* self._ids.index(document.id) + 1, or append and return len(self._sources)
add_source(ids, sources, document) ==
    IF \E i \in 1..Len(ids) : ids[i] = document.id
    THEN [ids |-> ids, sources |-> sources,
          ret |-> CHOOSE i \in 1..Len(ids) :
                     ids[i] = document.id /\ \A k \in 1..(i - 1) : ids[k] # document.id]
    ELSE [ids |-> Append(ids, document.id), sources |-> Append(sources, document),
          ret |-> Len(sources) + 1]

\* f"{i+1}. {title} - [{vendor}]({link})" as the sequence of its pieces; i is
\* the 1-based position, enumerate's index plus one
line_zero_based(i, source) ==
    str(i - 1) \o <<".", " ", source.meta.title, " ", "-", " ",
                    "[", source.meta.vendor, "]", "(", source.meta.link, ")">>

line(i, source) ==
    str(i) \o <<".", " ", source.meta.title, " ", "-", " ",
                "[", source.meta.vendor, "]", "(", source.meta.link, ")">>

\* the lines the generator yields, in the order of enumerate(self._sources)
generate_bibliography(sources) == [i \in 1..Len(sources) |-> line(i, sources[i])]

(***************************************************************************)
(* stream_sourced_output                                                   *)
(***************************************************************************)
\* documents[i] as Python indexes a list: negative i counts from the end
InRange(docs, i) == -Len(docs) <= i /\ i < Len(docs)
pyindex_reversed(docs, i) == IF i >= 0 THEN docs[Len(docs) - i] ELSE docs[-i]

\* documents[cite-1], a negative index counting from the end
pyindex(docs, i) == IF i >= 0 THEN docs[i + 1] ELSE docs[Len(docs) + i + 1]

\* lines 113-119: the loop over citations; an IndexError leaves the sources
\* added so far in place
RECURSIVE resolve(_, _, _, _, _)
resolve(citations, ids, sources, docs, new_citations) ==
    IF Len(citations) = 0
    THEN [ids |-> ids, sources |-> sources, new_citations |-> new_citations, err |-> "none"]
    ELSE LET cite == Head(citations)
         IN  IF ~InRange(docs, cite - 1)
             THEN [ids |-> ids, sources |-> sources,
                   new_citations |-> new_citations, err |-> "IndexError"]
             ELSE LET a == add_source(ids, sources, pyindex(docs, cite - 1))
                  IN  resolve(Tail(citations), a.ids, a.sources, docs,
                              Append(new_citations, a.ret))

BAD_REF == <<"B", "A", "D", " ", "R", "E", "F">>

emit_replace(hist, new_token) == new_token
emit_prepend(hist, new_token) == new_token \o hist

\* line 128: history += new_token
emit(hist, new_token) == hist \o new_token

FirstOpen(token) == CHOOSE i \in 1..Len(token) : token[i] = "[" /\ \A k \in 1..(i - 1) : token[k] # "["

ref104_from_bracket(buf, new_token) ==
    IF buf # <<>> THEN buf \o new_token
    ELSE IF Contains(new_token, "[") THEN SubSeq(new_token, FirstOpen(new_token), Len(new_token))
    ELSE buf

ref104_restart(buf, new_token) ==
    IF Contains(new_token, "[") THEN new_token
    ELSE IF buf # <<>> THEN buf \o new_token
    ELSE buf

\* lines 103-104: if "[" in new_token or ref: ref += new_token
ref104(buf, new_token) ==
    IF Contains(new_token, "[") \/ buf # <<>> THEN buf \o new_token ELSE buf

\* one iteration of the for loop (lines 100-129) on new_token; st holds the
\* locals and the registry
body(st, new_token, docs) ==
    LET ref103 == ref104(st.ref, new_token)
    IN  IF ref103 # <<>> /\ Contains(new_token, "]")
        THEN LET tc == transform_citations(ref103)
                 \* line 109, a list; line 123 assigns new_token again
                 new_token109 == IF Len(tc.numbers) = 0 THEN <<BAD_REF>> ELSE new_token
                 r == resolve(tc.numbers, st.ids, st.sources, docs, <<>>)
                 new_token123 == tc.start \o join(r.new_citations) \o tc.end
             IN  IF tc.raised
                 THEN [st EXCEPT !.ref = ref103, !.err = "ValueError", !.yielded = FALSE]
                 ELSE IF r.err # "none"
                 THEN [st EXCEPT !.ref = ref103, !.ids = r.ids, !.sources = r.sources,
                                 !.err = r.err, !.yielded = FALSE]
                 ELSE [st EXCEPT !.ref = <<>>, !.ids = r.ids, !.sources = r.sources,
                                 !.history = emit(st.history, new_token123),
                                 !.yielded = TRUE]
        ELSE IF ref103 # <<>>
        THEN [st EXCEPT !.ref = ref103, !.yielded = FALSE]
        ELSE [st EXCEPT !.history = emit(st.history, new_token), !.yielded = TRUE]

\* the whole generator driven to its end over a list of tokens
RECURSIVE run(_, _, _)
run(st, tokens, docs) ==
    IF Len(tokens) = 0 \/ st.err # "none" THEN st
    ELSE run(body(st, Head(tokens), docs), Tail(tokens), docs)

start_state(ids, sources) ==
    [history |-> <<>>, ref |-> <<>>, ids |-> ids, sources |-> sources,
     err |-> "none", yielded |-> FALSE]

(***************************************************************************)
(* Inputs of stream_sourced_output                                         *)
(***************************************************************************)
Marker(content) == <<"[">> \o content \o <<"]">>
Article(k) == ARTICLE \o <<" ">> \o str(k)

Fragments ==
    { <<"a", " ">>,
      Marker(Article(1)),
      Marker(Article(2) \o <<",", " ">> \o Article(1)),
      Marker(Article(3)),
      Marker(Article(0)),
      Marker(<<"N", "O", "T", " ", "A", " ", "R", "E", "F">>) \o <<" ", "b">>,
      <<"[">>,
      <<"]">> }

RECURSIVE Concats(_)
Concats(k) == IF k = 0 THEN {<<>>} ELSE {f \o t : f \in Fragments, t \in Concats(k - 1)}

Texts == UNION {Concats(k) : k \in 1..MaxFrags}

\* the documents of one turn; two documents may carry the same id
DocLists == {<<DA, DB>>, <<DA, DA2>>}

\* test_stream_with_sources: the text, the 13 documents, the chunks of 2
TestText ==
    <<"t", "h", "i", "s", " ", "i", "s", " ", "a", " ", "s", "t", "a", "t",
      "e", "m", "e", "n", "t", " ", "[", "A", "R", "T", "I", "C", "L", "E",
      " ", "1", "]", ".", "\n", " ", "T", "h", "i", "s", " ", "i", "s", " ",
      "a", "n", "o", "t", "h", "e", "r", " ", "s", "t", "a", "t", "e", "m",
      "e", "n", "t", " ", "[", "A", "R", "T", "I", "C", "L", "E", " ", "1",
      ",", " ", "A", "R", "T", "I", "C", "L", "E", " ", "1", "1", "]">>

TestIds == <<"t0", "t1", "t2", "t3", "t4", "t5", "t6", "t7", "t8", "t9", "t10", "t11", "t12">>

TestDocuments == [i \in 1..Len(TestIds) |-> [id |-> TestIds[i], meta |-> Meta(TestIds[i])]]

TestChunks == {2}

\* how a stream cuts a text: 0 for anywhere, k for tokens of k characters
Chunks == {0, 1, 2}

\* what one call is given: documents, the text of the stream, how it is cut
Cases ==
    {[documents |-> d, input |-> t, chunk_size |-> k] : d \in DocLists, t \in Texts, k \in Chunks}
      \cup {[documents |-> TestDocuments, input |-> TestText, chunk_size |-> k] : k \in TestChunks}

\* the registry a turn is handed: new, or holding a source of an earlier turn
StartRegistries == {<<>>, <<DB>>}

Ids(sources) == [i \in 1..Len(sources) |-> sources[i].id]

(***************************************************************************)
(* Parked values of the variables a specification does not use             *)
(***************************************************************************)
NoChannel ==
    /\ _done = FALSE /\ _text = <<>> /\ worker = "none" /\ ppc = "none"
    /\ calls = <<>> /\ pushed = <<>> /\ cpc = "none" /\ received = <<>>
    /\ async_result = "none" /\ printed = 0

NoParse == [called |-> FALSE, raised |-> FALSE, start |-> <<>>, numbers |-> <<>>, end |-> <<>>]

NoRewrite ==
    /\ parsed = NoParse
    /\ documents = <<>> /\ input = <<>> /\ pos = 0 /\ history = <<>> /\ ref = <<>>
    /\ rpc = "none" /\ err = "none" /\ yields = 0 /\ sources0 = <<>>
    /\ one_bracket = TRUE /\ chunk_size = 0

NoBibliography == [called |-> FALSE, lines |-> <<>>]

NoSourceCalls == addLog = <<>> /\ turn = 1 /\ bibliography = NoBibliography

NoTurns == streaming_callback = 0 /\ streamers = <<>> /\ turns = <<>>

NoDocuments == [called |-> FALSE, docs |-> <<>>]

NoFeed == feed = <<>> /\ deduplicated_documents = NoDocuments

(***************************************************************************)
(* SpecChan: one run_async and the consumer of its StreamingText           *)
(***************************************************************************)
InitChan ==
    InitChannel /\ NoRewrite /\ NoSourceCalls /\ NoTurns /\ NoFeed /\ _ids = <<>> /\ _sources = <<>>

NextChan ==
    \/ WorkerStart
    \/ \E content \in Tokens, meta \in Metas : Call(content, meta)
    \/ Call40
    \/ Call44
    \/ Call46
    \/ WorkerFinish
    \/ WorkerRaise
    \/ Next52
    \/ Next54
    \/ Get135

SpecChan == InitChan /\ [][NextChan]_vars

\* Both threads keep being scheduled while they can run: a started __call__
\* runs to its end, and the consumer's __next__ proceeds whenever it is not
\* blocked in Queue.get.  The backend itself owes no further chunk.
FairChan ==
    /\ SpecChan
    /\ WF_vars(WorkerStart) /\ WF_vars(Call40) /\ WF_vars(Call44) /\ WF_vars(Call46)
    /\ WF_vars(Next52) /\ WF_vars(Next54)

(***************************************************************************)
(* SpecAbandon: the channel when the caller may stop iterating             *)
(***************************************************************************)
\* the caller of stream_output stops iterating before the stream has ended:
\* the generator is closed, no __next__ is called again, and nothing of the
\* streamer, the pool or the backend is touched
Abandon ==
    /\ cpc \in {"l52", "l54"}
    /\ cpc' = "abandoned"
    /\ UNCHANGED <<feedVars, _done, _text, worker, ppc, calls, pushed, received, async_result, printed, rwVars, srcVars, turnVars>>

NextAbandon ==
    \/ NextChan
    \/ Abandon

SpecAbandon == InitChan /\ [][NextAbandon]_vars

\* the scheduling of FairChan; the caller owes no abandonment
FairAbandon ==
    /\ SpecAbandon
    /\ WF_vars(WorkerStart) /\ WF_vars(Call40) /\ WF_vars(Call44) /\ WF_vars(Call46)
    /\ WF_vars(Next52) /\ WF_vars(Next54)

(***************************************************************************)
(* SpecRewrite: stream_sourced_output(stream, sources, documents)          *)
(***************************************************************************)
InitRewrite ==
    /\ NoChannel /\ NoSourceCalls /\ NoTurns /\ NoFeed
    /\ \E case \in Cases :
          /\ documents = case.documents
          /\ input = case.input
          /\ chunk_size = case.chunk_size
    /\ sources0 \in StartRegistries
    /\ _sources = sources0
    /\ _ids = Ids(sources0)
    /\ pos = 0 /\ history = <<>> /\ ref = <<>>
    /\ rpc = "loop" /\ err = "none" /\ yields = 0
    /\ one_bracket = TRUE /\ parsed = NoParse

locals == [history |-> history, ref |-> ref, ids |-> _ids, sources |-> _sources,
           err |-> "none", yielded |-> FALSE]

\* the stream delivers the next n characters as one token and the loop body
\* runs on it
BracketCount(token) == Cardinality({i \in 1..Len(token) : token[i] \in {"[", "]"}})

NextToken(n) ==
    /\ rpc = "loop"
    /\ pos + n <= Len(input)
    /\ chunk_size = 0 \/ n = chunk_size \/ (n < chunk_size /\ pos + n = Len(input))
    /\ one_bracket' = (one_bracket /\ BracketCount(SubSeq(input, pos + 1, pos + n)) <= 1)
    /\ LET st == body(locals, SubSeq(input, pos + 1, pos + n), documents)
       IN  /\ history' = st.history
           /\ ref' = st.ref
           /\ _ids' = st.ids
           /\ _sources' = st.sources
           /\ err' = st.err
           /\ rpc' = IF st.err = "none" THEN "loop" ELSE "raised"
           /\ yields' = IF st.yielded THEN yields + 1 ELSE yields
    /\ pos' = pos + n
    /\ UNCHANGED <<feedVars, documents, input, sources0, chunk_size, parsed, chanVars, addLog, turn, bibliography, turnVars>>

StreamEndFlush ==
    /\ rpc = "loop"
    /\ pos = Len(input)
    /\ rpc' = "done"
    /\ history' = history \o ref
    /\ yields' = IF ref # <<>> THEN yields + 1 ELSE yields
    /\ UNCHANGED <<feedVars, documents, input, pos, ref, err, sources0,
                   one_bracket, chunk_size, parsed,
                   _ids, _sources, chanVars, addLog, turn, bibliography, turnVars>>

\* the stream raises StopIteration and the for loop ends
StreamEnd ==
    /\ rpc = "loop"
    /\ pos = Len(input)
    /\ rpc' = "done"
    /\ UNCHANGED <<feedVars, documents, input, pos, history, ref, err, yields, sources0,
                   one_bracket, chunk_size, parsed,
                   _ids, _sources, chanVars, addLog, turn, bibliography, turnVars>>

NextRewrite ==
    \/ \E n \in 1..Len(input) : NextToken(n)
    \/ StreamEnd

SpecRewrite == InitRewrite /\ [][NextRewrite]_vars

(***************************************************************************)
(* SpecParse: one transform_citations call on one string                   *)
(***************************************************************************)
\* the strings of test_extract_citations, and two ARTICLEs written together
TestCitations ==
    { Marker(Article(1)),
      Marker(Article(1) \o <<",", " ">> \o Article(2)),
      <<" ">> \o Marker(Article(1)) \o <<".", "\n">>,
      Marker(Article(1) \o Article(2)) }

Citations == Texts \cup TestCitations

InitParse ==
    /\ NoChannel /\ NoSourceCalls /\ NoTurns /\ NoFeed /\ _ids = <<>> /\ _sources = <<>>
    /\ input \in Citations
    /\ parsed = NoParse
    /\ documents = <<>> /\ pos = 0 /\ history = <<>> /\ ref = <<>>
    /\ rpc = "none" /\ err = "none" /\ yields = 0 /\ sources0 = <<>>
    /\ one_bracket = TRUE /\ chunk_size = 0

\* start, citations, end = transform_citations(input), or ValueError
Parse ==
    /\ ~parsed.called
    /\ LET r == transform_citations(input)
       IN  parsed' = [called |-> TRUE, raised |-> r.raised, start |-> r.start,
                      numbers |-> r.numbers, end |-> r.end]
    /\ UNCHANGED <<feedVars, documents, input, pos, history, ref, rpc, err, yields, sources0,
                   one_bracket, chunk_size, chanVars, srcVars, turnVars>>

NextParse == Parse

SpecParse == InitParse /\ [][NextParse]_vars

(***************************************************************************)
(* SpecSources: one Sources object under add_source calls                  *)
(***************************************************************************)
InitSources ==
    /\ NoChannel /\ NoRewrite /\ NoTurns /\ NoFeed
    /\ _ids = <<>> /\ _sources = <<>>
    /\ addLog = <<>> /\ turn = 1 /\ bibliography = NoBibliography

AddSource(document) ==
    /\ Len(addLog) < MaxAdds
    /\ LET a == add_source(_ids, _sources, document)
       IN  /\ _ids' = a.ids
           /\ _sources' = a.sources
           /\ addLog' = Append(addLog, [document |-> document, ret |-> a.ret, turn |-> turn])
    /\ UNCHANGED <<feedVars, turn, bibliography, chanVars, rwVars, turnVars>>

\* the next summarise or qa call is handed the same Sources object
NewTurn ==
    /\ turn < MaxTurns
    /\ turn' = turn + 1
    /\ UNCHANGED <<feedVars, _ids, _sources, addLog, bibliography, chanVars, rwVars, turnVars>>

\* list(sources.generate_bibliography()): reads the registry, writes nothing
GenerateBibliography ==
    /\ bibliography' = [called |-> TRUE, lines |-> generate_bibliography(_sources)]
    /\ UNCHANGED <<feedVars, _ids, _sources, addLog, turn, chanVars, rwVars, turnVars>>

NextSources ==
    \/ \E document \in DocPool : AddSource(document)
    \/ NewTurn
    \/ GenerateBibliography

SpecSources == InitSources /\ [][NextSources]_vars

(***************************************************************************)
(* SpecTurns: run_async and stream_output called for two turns on one      *)
(* pipeline object, whose llm holds the one streaming_callback field.      *)
(* A token is the number of the turn whose worker produced it.             *)
(***************************************************************************)
Turns == {1, 2}

InitTurns ==
    /\ NoChannel /\ NoRewrite /\ NoSourceCalls /\ NoFeed /\ _ids = <<>> /\ _sources = <<>>
    /\ streaming_callback = 0
    /\ streamers = [c \in Turns |-> [_text |-> <<>>, _done |-> FALSE, put |-> <<>>]]
    /\ turns = [t \in Turns |->
                  [worker |-> "none", sink |-> 0, pushes |-> 0, reader |-> 0,
                   got |-> <<>>, ended |-> FALSE]]

\* run_async of turn t: streamer = StreamingText(); self.llm.streaming_callback
\* = streamer; pool.apply_async(self.run, ...)
RunAsync(t) ==
    /\ turns[t].worker = "none"
    /\ \A u \in Turns : u < t => turns[u].worker # "none"
    /\ streaming_callback' = t
    /\ turns' = [turns EXCEPT ![t].worker = "pending"]
    /\ UNCHANGED <<feedVars, streamers, chanVars, rwVars, srcVars>>

\* the pool thread of turn t enters self.run, and the llm component starts
\* streaming to the callback its field holds at that moment
WorkerRun(t) ==
    /\ turns[t].worker = "pending"
    /\ turns' = [turns EXCEPT ![t].worker = "running", ![t].sink = streaming_callback]
    /\ UNCHANGED <<feedVars, streaming_callback, streamers, chanVars, rwVars, srcVars>>

\* the backend of turn t hands one chunk to its callback (StreamingText.__call__)
Push(t, terminal) ==
    /\ turns[t].worker = "running"
    /\ turns[t].pushes < MaxPushes
    /\ LET c == turns[t].sink
       IN  streamers' = [streamers EXCEPT
                            ![c]._done = terminal \/ streamers[c]._done,
                            ![c]._text = put(streamers[c]._text, t),
                            ![c].put = Append(streamers[c].put, t)]
    /\ turns' = [turns EXCEPT ![t].pushes = turns[t].pushes + 1,
                              ![t].worker = IF terminal THEN "finished" ELSE "running"]
    /\ UNCHANGED <<feedVars, streaming_callback, chanVars, rwVars, srcVars>>

\* the caller of turn t starts to consume stream_output: the generator body
\* evaluates iter(self.llm.streaming_callback) at its first step
StreamOutput(t) ==
    /\ turns[t].worker # "none"
    /\ turns[t].reader = 0
    /\ turns' = [turns EXCEPT ![t].reader = streaming_callback]
    /\ UNCHANGED <<feedVars, streaming_callback, streamers, chanVars, rwVars, srcVars>>

\* one __next__ of the streamer that turn t reads
NextOf(t) ==
    /\ turns[t].reader # 0
    /\ ~turns[t].ended
    /\ LET c == turns[t].reader
       IN  IF streamers[c]._done
           THEN /\ turns' = [turns EXCEPT ![t].ended = TRUE]
                /\ UNCHANGED streamers
           ELSE /\ streamers[c]._text # <<>>
                /\ turns' = [turns EXCEPT ![t].got = Append(turns[t].got, get(streamers[c]._text).item)]
                /\ streamers' = [streamers EXCEPT ![c]._text = get(streamers[c]._text).rest]
    /\ UNCHANGED <<feedVars, streaming_callback, chanVars, rwVars, srcVars>>

NextTurns ==
    \/ \E t \in Turns : RunAsync(t)
    \/ \E t \in Turns : WorkerRun(t)
    \/ \E t \in Turns, terminal \in BOOLEAN : Push(t, terminal)
    \/ \E t \in Turns : StreamOutput(t)
    \/ \E t \in Turns : NextOf(t)

SpecTurns == InitTurns /\ [][NextTurns]_vars

(***************************************************************************)
(* SpecFeeds: Feed.get_documents over the entries of its subfeeds          *)
(***************************************************************************)
\* self.subfeeds.keys(), in the order of the class's dict
subfeeds == <<"Top Stories", "World">>

\* the entries a parsed feed may hold: what parse makes their content, their
\* link, and whether parse and _feed2doc find every key they read
EntryPool ==
    { [content |-> "c1", link |-> "l1", ok |-> TRUE],
      [content |-> "c1", link |-> "l2", ok |-> TRUE],
      [content |-> "c2", link |-> "l3", ok |-> TRUE],
      [content |-> "c3", link |-> "l4", ok |-> FALSE] }

EntryLists == UNION {[1..n -> EntryPool] : n \in 0..MaxEntries}

\* get_subfeed(name): one Document per entry that parses, in feed order, its
\* meta carrying the link and subfeeds=name; a KeyError skips the entry
RECURSIVE docs_of(_, _)
docs_of(entries, name) ==
    IF Len(entries) = 0 THEN <<>>
    ELSE IF Head(entries).ok
         THEN <<[content |-> Head(entries).content,
                 meta |-> [link |-> Head(entries).link, subfeeds |-> name]]>>
                 \o docs_of(Tail(entries), name)
         ELSE docs_of(Tail(entries), name)

get_subfeed(name) == docs_of(feed[name], name)

\* lines 96-98: the documents of all subfeeds in the order they are visited
RECURSIVE all_docs(_)
all_docs(k) ==
    IF k > Len(subfeeds) THEN <<>> ELSE get_subfeed(subfeeds[k]) \o all_docs(k + 1)

\* unique_docs[content]: the documents of one content, in insertion order
RECURSIVE same_docs_in(_, _)
same_docs_in(docs, content) ==
    IF Len(docs) = 0 THEN <<>>
    ELSE IF Head(docs).content = content
         THEN <<Head(docs)>> \o same_docs_in(Tail(docs), content)
         ELSE same_docs_in(Tail(docs), content)

\* unique_docs.keys(): the contents in the order of their first insertion
RECURSIVE keys_of(_, _)
keys_of(docs, seen) ==
    IF Len(docs) = 0 THEN <<>>
    ELSE IF Head(docs).content \in seen THEN keys_of(Tail(docs), seen)
         ELSE <<Head(docs).content>> \o keys_of(Tail(docs), seen \cup {Head(docs).content})

merge_first_only(same_docs) == <<same_docs[1].meta.subfeeds>>

\* line 105: [d.meta["subfeeds"] for d in same_docs]
merge_subfeeds(same_docs) == [i \in 1..Len(same_docs) |-> same_docs[i].meta.subfeeds]

\* lines 95-107
get_documents ==
    LET docs == all_docs(1)
        keys == keys_of(docs, {})
    IN  [k \in 1..Len(keys) |->
            LET same_docs == same_docs_in(docs, keys[k])
            IN  [same_docs[1] EXCEPT !.meta.subfeeds = merge_subfeeds(same_docs)]]

InitFeeds ==
    /\ NoChannel /\ NoRewrite /\ NoSourceCalls /\ NoTurns /\ _ids = <<>> /\ _sources = <<>>
    /\ feed \in [{subfeeds[k] : k \in 1..Len(subfeeds)} -> EntryLists]
    /\ deduplicated_documents = NoDocuments

\* Feed.get_documents() of a feed whose subfeeds is not empty
GetDocuments ==
    /\ ~deduplicated_documents.called
    /\ deduplicated_documents' = [called |-> TRUE, docs |-> get_documents]
    /\ UNCHANGED <<feed, chanVars, rwVars, srcVars, turnVars>>

NextFeeds == GetDocuments

SpecFeeds == InitFeeds /\ [][NextFeeds]_vars

(***************************************************************************)
(* What the rewriter is expected to produce, stated on the whole text      *)
(***************************************************************************)
Min(S) == CHOOSE x \in S : \A y \in S : x <= y

FirstAt(s, ch, from) ==
    LET P == {i \in from..Len(s) : s[i] = ch} IN IF P = {} THEN 0 ELSE Min(P)

\* "ARTICLE k1, ARTICLE k2, ..."
RECURSIVE MarkerContent(_)
MarkerContent(ns) ==
    IF Len(ns) = 1 THEN Article(ns[1])
    ELSE Article(ns[1]) \o <<",", " ">> \o MarkerContent(Tail(ns))

\* the number lists a marker content of this length can spell, over 1..n
NumberLists(content, n) == UNION {[1..k -> 1..n] : k \in 1..(Len(content) \div 9)}

IsMarkerContent(content, n) == \E ns \in NumberLists(content, n) : MarkerContent(ns) = content

NumbersOf(content, n) == CHOOSE ns \in NumberLists(content, n) : MarkerContent(ns) = content

\* every bracket of the text belongs to a marker [ARTICLE i, ARTICLE j, ...]
\* with all numbers in 1..n
RECURSIVE WellFormed(_, _)
WellFormed(s, n) ==
    LET i == FirstAt(s, "[", 1)
        j == FirstAt(s, "]", 1)
    IN  IF i = 0 /\ j = 0 THEN TRUE
        ELSE /\ i # 0 /\ i < j
             /\ IsMarkerContent(SubSeq(s, i + 1, j - 1), n)
             /\ WellFormed(SubSeq(s, j + 1, Len(s)), n)

HasMarker(s) == Contains(s, "[")

\* the registry after citing docs in order, and a document's place in it
RECURSIVE Cite(_, _)
Cite(reg, docs) ==
    IF Len(docs) = 0 THEN reg
    ELSE Cite(IF \E i \in 1..Len(reg) : reg[i].id = Head(docs).id
              THEN reg ELSE Append(reg, Head(docs)),
              Tail(docs))

Ordinal(reg, doc) == Min({i \in 1..Len(reg) : reg[i].id = doc.id})

\* a well-formed text with every marker replaced by the ordinals of the
\* documents it cites, and the registry after the last marker
RECURSIVE Expected(_, _, _)
Expected(s, reg, docs) ==
    IF ~Contains(s, "[") THEN [text |-> s, sources |-> reg]
    ELSE LET i == FirstAt(s, "[", 1)
             j == FirstAt(s, "]", i)
             ns == NumbersOf(SubSeq(s, i + 1, j - 1), Len(docs))
             cited == [k \in 1..Len(ns) |-> docs[ns[k]]]
             reg2 == Cite(reg, cited)
             ords == [k \in 1..Len(ns) |-> Ordinal(reg2, cited[k])]
             rest == Expected(SubSeq(s, j + 1, Len(s)), reg2, docs)
         IN  [text |-> SubSeq(s, 1, i) \o join(ords) \o <<"]">> \o rest.text,
              sources |-> rest.sources]

\* the split of a text into one token per character
Chars(s) == [i \in 1..Len(s) |-> <<s[i]>>]

\* every number the pattern ARTICLE <integer> finds in a text
CitedNumbers(s) == LET m == findall(s, 1) IN [k \in 1..Len(m) |-> int(m[k])]

(***************************************************************************)
(* Claims                                                                  *)
(***************************************************************************)

\* __next__ has raised StopIteration: the consumer's loop is over
StreamEnded == cpc \in {"stopped", "returned", "get_raised"}

\* C1: the consumer signals end-of-sequence only when the channel is closed
\* and the queue is empty; every token pushed, the terminal one included, has
\* been returned by then, so nothing is left in the queue at closure.
C1_EndOnlyWhenDrained ==
    cpc = "stopped" => (_done /\ _text = <<>> /\ received = pushed)

\* C2: if the worker raises before any terminal chunk was pushed, the consumer
\* observes end-of-stream: its loop ends instead of staying blocked in
\* __next__.
C2_RaiseEndsStream ==
    (worker = "raised" /\ ~TerminalCalled) ~> StreamEnded

\* C3: for a text of well-formed markers with all numbers in 1..N, however it
\* is split into tokens, no exception escapes and the final text has every
\* marker replaced by the ordinals of the documents it cites, the registry
\* holding one entry per distinct cited document in first-citation order.
C3_MarkersRewritten ==
    (WellFormed(input, Len(documents)) /\ HasMarker(input)) =>
        /\ rpc # "raised"
        /\ rpc = "done" =>
              LET e == Expected(input, sources0, documents)
              IN  history = e.text /\ _sources = e.sources

\* C4: the final text and the final registry are the same for every split of
\* a fixed text into non-empty tokens; stated for the texts of well-formed
\* markers: a split that runs to the end agrees with the one-character split
\* of the same text whenever that one runs to the end too.
C4_ChunkInsensitive ==
    (rpc = "done" /\ WellFormed(input, Len(documents))) =>
        LET r == run(start_state(Ids(sources0), sources0), Chars(input), documents)
        IN  r.err = "none" => (history = r.history /\ _sources = r.sources)

NotARefText ==
    <<"a", " ", "[", "N", "O", "T", " ", "A", " ", "R", "E", "F", "]", " ", "b">>

\* C5: the input "a [NOT A REF] b" yields the final text "a BAD REF b" and
\* the registry gains no source.
C5_BadRefPlaceholder ==
    (rpc = "done" /\ input = NotARefText) =>
        /\ history = <<"a", " ">> \o BAD_REF \o <<" ", "b">>
        /\ _sources = sources0

\* C6: a marker without any article number never aborts the stream: no
\* exception escapes while the buffered text holds no ARTICLE <integer>.
C6_MalformedNeverAborts ==
    ~(rpc = "raised" /\ CitedNumbers(ref) = <<>>)

\* C7: an article number outside 1..N is recovered per marker: no IndexError
\* escapes, and a text whose numbers are all outside 1..N registers nothing.
C7_OutOfRangeRecovered ==
    /\ err # "IndexError"
    /\ (\A k \in 1..Len(CitedNumbers(input)) :
            CitedNumbers(input)[k] \notin 1..Len(documents))
          => _sources = sources0

\* C8: add_source returns the same ordinal for every document of equal id,
\* whatever was added in between and in whichever turn the calls are made.
C8_OrdinalStable ==
    \A i, j \in 1..Len(addLog) :
        addLog[i].document.id = addLog[j].document.id => addLog[i].ret = addLog[j].ret

\* C8 witness: two distinct documents of equal id were added in different
\* turns with another document's first add in between.
C8_Witness ==
    \E i, k, j \in 1..Len(addLog) :
        /\ i < k /\ k < j
        /\ addLog[i].document.id = addLog[j].document.id
        /\ addLog[i].document # addLog[j].document
        /\ addLog[k].document.id # addLog[i].document.id
        /\ addLog[i].turn # addLog[j].turn

\* C9: what the consumer has been returned is at every moment a prefix of
\* what the producer has put: same order, nothing twice, nothing merged.
C9_ReceivedPrefixOfPushed == IsPrefix(received, pushed)

\* C9 witness: two different tokens have been returned while a third push is
\* still queued.
C9_Witness ==
    /\ Len(received) = 2 /\ received[1] # received[2]
    /\ Len(pushed) = 3 /\ _text # <<>>

\* C10: once a terminal chunk has been handed to the callback, the consumer's
\* pending __next__ returns or raises StopIteration and its loop ends.
C10_TerminalEndsConsumer == TerminalCalled ~> StreamEnded

\* C10 witness: the consumer is waiting in Queue.get, past its flag check,
\* while the terminal call has written the flag and not yet put its token.
C10_Witness ==
    /\ cpc = "l54" /\ _text = <<>>
    /\ _done /\ ppc = "l46" /\ IsTerminal(chunk.meta)

\* the completion test on the raw keys of a chunk's meta
Closing(meta) == (meta.has_done /\ meta.done) \/ meta.has_finish

\* C11: a terminal push marks the channel closed only after its token has
\* been queued: whenever the closed flag is set, every chunk handed to the
\* callback so far has been put on the queue.
C11_ClosedAfterQueued == _done => Len(pushed) = Len(calls)

\* the chunks whose flag test has run: all but the current one, and the
\* current one from line 41 on for "done", from line 45 on for "finish_reason"
Flagged(i) ==
    \/ i < Len(calls)
    \/ ppc = "idle"
    \/ (ppc \in {"l44", "l46"} /\ calls[i].meta.has_done /\ calls[i].meta.done)
    \/ (ppc = "l46" /\ calls[i].meta.has_finish)

\* C12: the channel is closed exactly when a push whose meta has done=true or
\* a finish_reason key has run its test, whichever convention came first; a
\* push with neither leaves it open, and a closed channel never reopens.
C12_ClosedIffTerminalPush ==
    /\ [](_done <=> \E i \in 1..Len(calls) : Closing(calls[i].meta) /\ Flagged(i))
    /\ [][_done => _done']_vars

\* C12 witness: a push with neither key and a push with done=false left the
\* channel open, and a finish_reason push has closed it.
C12_Witness ==
    /\ Len(calls) = 3 /\ ppc = "idle" /\ _done
    /\ ~calls[1].meta.has_done /\ ~calls[1].meta.has_finish
    /\ calls[2].meta.has_done /\ ~calls[2].meta.done
    /\ calls[3].meta.has_finish

C14_TurnsDoNotRace ==
    /\ \A c \in Turns : \A i \in 1..Len(streamers[c].put) : streamers[c].put[i] = c
    /\ \A t \in Turns : turns[t].reader \in {0, t}

DistinctIds(docs) == \A i, j \in 1..Len(docs) : docs[i].id = docs[j].id => i = j

TestOutput ==
    <<"t", "h", "i", "s", " ", "i", "s", " ", "a", " ", "s", "t", "a", "t",
      "e", "m", "e", "n", "t", " ", "[", "1", "]", ".", "\n", " ", "T", "h",
      "i", "s", " ", "i", "s", " ", "a", "n", "o", "t", "h", "e", "r", " ",
      "s", "t", "a", "t", "e", "m", "e", "n", "t", " ", "[", "1", ",", "2",
      "]">>

\* C15: when every token holds at most one bracket character, the text is
\* made of well-formed markers with numbers in 1..N and the documents have
\* pairwise distinct ids, no exception escapes and the final text is the
\* input with each marker replaced by its comma-joined ordinals, the registry
\* listing the cited documents in first-citation order; the 13 documents and
\* the text of test_stream_with_sources in chunks of 2 give "[1]" and
\* "[1,2]" and the sources D0, D10.
C15_OneBracketTokensRewritten ==
    /\ (one_bracket /\ WellFormed(input, Len(documents)) /\ DistinctIds(documents)) =>
          /\ rpc # "raised"
          /\ rpc = "done" =>
                LET e == Expected(input, sources0, documents)
                IN  history = e.text /\ _sources = e.sources
    /\ (rpc = "done" /\ input = TestText /\ chunk_size = 2 /\ sources0 = <<>>) =>
          /\ history = TestOutput
          /\ _sources = <<TestDocuments[1], TestDocuments[11]>>

\* C15 witness: the test's text has been streamed in chunks of 2 to its end,
\* and so has a text of two markers cut into one-bracket tokens
C15_Witness ==
    /\ rpc = "done" /\ one_bracket /\ DistinctIds(documents)
    /\ WellFormed(input, Len(documents)) /\ HasMarker(input)
    /\ input = TestText /\ chunk_size = 2 /\ sources0 = <<>>

C15_WitnessTwoMarkers ==
    /\ rpc = "done" /\ one_bracket /\ DistinctIds(documents)
    /\ WellFormed(input, Len(documents))
    /\ Len(_sources) > Len(sources0) + 1

\* the last add_source call: its document and what it returned
LastAdd == addLog[Len(addLog)]

Registered(sources, document) == \E i \in 1..Len(sources) : sources[i].id = document.id

\* C16: add_source on a document whose id is not registered appends it at the
\* end and returns the size after the append; on a registered id it returns
\* the existing ordinal and leaves the registry unchanged; no step removes or
\* reorders entries: the source list before a step is a prefix of the list
\* after it.
C16_AppendOrExistingOrdinal ==
    /\ [][addLog' # addLog =>
            LET document == LastAdd'.document
                ret == LastAdd'.ret
            IN  IF Registered(_sources, document)
                THEN /\ _sources' = _sources
                     /\ ret \in 1..Len(_sources)
                     /\ _sources[ret].id = document.id
                ELSE /\ _sources' = Append(_sources, document)
                     /\ ret = Len(_sources')]_vars
    /\ [][IsPrefix(_sources, _sources')]_vars

\* C16 witness: a registered id was added again after an unregistered one
\* had been appended behind it
C16_Witness ==
    \E i, k, j \in 1..Len(addLog) :
        /\ i < k /\ k < j
        /\ addLog[i].document.id = addLog[j].document.id
        /\ addLog[k].ret = 2 /\ addLog[j].ret = 1
        /\ Len(_sources) = 2

\* what a bibliography line shows: the number before the first "." and the
\* title two places behind it
LineOrdinal(l) == int(SubSeq(l, 1, FirstAt(l, ".", 1) - 1))

LineTitle(l) == l[FirstAt(l, ".", 1) + 2]

\* C17: generate_bibliography yields one line per registered document in
\* registration order, the i-th line carrying the ordinal i, which is the
\* ordinal add_source returned for that document, and a call made between any
\* two add_source calls leaves the registry as it was.
C17_BibliographyFollowsRegistry ==
    [][bibliography' # bibliography =>
          LET lines == bibliography'.lines
          IN  /\ _sources' = _sources /\ _ids' = _ids
              /\ Len(lines) = Len(_sources)
              /\ \A i \in 1..Len(lines) :
                    /\ LineOrdinal(lines[i]) = i
                    /\ LineTitle(lines[i]) = _sources[i].meta.title
              /\ \A k \in 1..Len(addLog) :
                    LET ret == addLog[k].ret
                    IN  /\ ret \in 1..Len(lines)
                        /\ LineOrdinal(lines[ret]) = ret
                        /\ _sources[ret].id = addLog[k].document.id]_vars

\* C17 witness: the bibliography was generated between add_source calls, when
\* one document was registered, and a second one was registered after it
C17_Witness ==
    /\ bibliography.called /\ Len(bibliography.lines) = 1
    /\ Len(addLog) > 2 /\ Len(_sources) = 2

\* C18: partial output only grows: the text yielded by a step has the text
\* yielded before it as a prefix, so nothing already shown is shortened or
\* altered by a later token.
C18_PartialOutputGrows ==
    [][IsPrefix(history, history')]_vars

\* C18 witness: three or more texts were yielded, the last ones after a
\* marker had been rewritten into the text
C18_Witness ==
    /\ yields > 2 /\ rpc = "loop"
    /\ Len(_sources) > Len(sources0)
    /\ Contains(history, "]") /\ history[Len(history)] # "]"

\* C19: for a stream in which no token contains "[", every token yields one
\* element, no exception escapes, the text yielded so far is the tokens so
\* far unchanged, so the final text is the input, and the registry stays as
\* it was when the generator was called.
C19_NoMarkerPassesThrough ==
    /\ [](~Contains(input, "[") =>
            /\ rpc # "raised"
            /\ history = SubSeq(input, 1, pos)
            /\ rpc = "done" => history = input
            /\ _sources = sources0 /\ _ids = Ids(sources0))
    /\ [][(~Contains(input, "[") /\ pos' # pos) => yields' = yields + 1]_vars

\* C19 witness: a text without "[" but with a "]" was streamed to its end in
\* more than one token, into a registry that was not empty
C19_Witness ==
    /\ rpc = "done" /\ ~Contains(input, "[") /\ Contains(input, "]")
    /\ yields > 2 /\ sources0 # <<>>

\* the integers of all ARTICLE <integer> occurrences of a text from position
\* p on, in order of appearance
RECURSIVE ArticleInts(_, _)
ArticleInts(s, p) ==
    IF p + 8 > Len(s) THEN <<>>
    ELSE IF /\ SubSeq(s, p, p + 6) = <<"A", "R", "T", "I", "C", "L", "E">>
            /\ s[p + 7] \in {" ", "\n", "\t"}
            /\ s[p + 8] \in Digits
         THEN LET e == Min({k \in (p + 8)..Len(s) : k = Len(s) \/ s[k + 1] \notin Digits})
              IN  <<int(SubSeq(s, p + 8, e))>> \o ArticleInts(s, e + 1)
         ELSE ArticleInts(s, p + 1)

LastOpen(s) == Max({i \in 1..Len(s) : s[i] = "["})

OpenThenClose(s) == \E a, b \in 1..Len(s) : a < b /\ s[a] = "[" /\ s[b] = "]"

\* C20: for a string with a "[" followed later by a "]", transform_citations
\* returns (prefix, numbers, suffix): prefix is the string up to and including
\* its last "[", suffix is the string from the "]" that closes it onward, and
\* numbers are the integers of all ARTICLE <integer> between the two, in
\* order of appearance.
C20_PrefixNumbersSuffix ==
    (parsed.called /\ OpenThenClose(input)) =>
        /\ ~parsed.raised
        /\ LET i == LastOpen(input)
               j == FirstAt(input, "]", i)
           IN  j # 0 =>
                 /\ parsed.start = SubSeq(input, 1, i)
                 /\ parsed.end = SubSeq(input, j, Len(input))
                 /\ parsed.numbers = ArticleInts(SubSeq(input, i + 1, j - 1), 1)

\* the token a step of the loop was given
TokenOf(p, q) == SubSeq(input, p + 1, q)

\* a step of the loop body
TokenStep == rpc = "loop" /\ pos' # pos

\* C21: with an empty buffer, a token without "[" is appended to the output
\* unchanged in the same step and produces one output element; a token with a
\* "[" and no "]" produces no output element and leaves the buffer equal to
\* that whole token.
C21_PassthroughOrOpen ==
    [][(TokenStep /\ ref = <<>>) =>
          LET token == TokenOf(pos, pos')
          IN  /\ ~Contains(token, "[") =>
                    /\ history' = history \o token
                    /\ yields' = yields + 1
                    /\ ref' = <<>> /\ rpc' = "loop"
                    /\ _sources' = _sources
              /\ (Contains(token, "[") /\ ~Contains(token, "]")) =>
                    /\ yields' = yields /\ history' = history
                    /\ ref' = token /\ rpc' = "loop"
                    /\ _sources' = _sources]_vars

\* C21 witness: text was passed through, then a token with text before its
\* "[" opened the buffer
C21_Witness ==
    /\ rpc = "loop" /\ yields > 0 /\ history # <<>>
    /\ Len(ref) > 1 /\ ref[1] # "[" /\ Contains(ref, "[") /\ ~Contains(ref, "]")
    /\ history \o ref = SubSeq(input, 1, pos)

\* a text cut into tokens of k characters, the last one shorter if need be
RECURSIVE ChunksOf(_, _)
ChunksOf(s, k) ==
    IF Len(s) <= k THEN (IF Len(s) = 0 THEN <<>> ELSE <<s>>)
    ELSE <<SubSeq(s, 1, k)>> \o ChunksOf(SubSeq(s, k + 1, Len(s)), k)

\* the number of tokens consumed only into the buffer: those that arrive
\* while a "[" is open, or open one, and hold no "]"
RECURSIVE BufferedOnly(_, _)
BufferedOnly(tokens, buffering) ==
    IF Len(tokens) = 0 THEN 0
    ELSE LET token == Head(tokens)
         IN  IF (buffering \/ Contains(token, "[")) /\ ~Contains(token, "]")
             THEN 1 + BufferedOnly(Tail(tokens), TRUE)
             ELSE BufferedOnly(Tail(tokens), FALSE)

\* C22: while the buffer is not empty, a token without "]" is appended to the
\* buffer and produces no output element and no change to the emitted text or
\* the registry; every token either produces one output element or goes into
\* the buffer without one, so over a whole run the output elements number the
\* tokens minus the tokens consumed only into the buffer.
C22_BufferingHoldsOutput ==
    /\ [][(TokenStep /\ ref # <<>> /\ ~Contains(TokenOf(pos, pos'), "]")) =>
             /\ ref' = ref \o TokenOf(pos, pos')
             /\ yields' = yields /\ history' = history
             /\ _sources' = _sources /\ _ids' = _ids
             /\ rpc' = "loop"]_vars
    /\ [][TokenStep =>
             \/ yields' = yields + 1 /\ ref' = <<>>
             \/ yields' = yields /\ history' = history /\ ref' = ref \o TokenOf(pos, pos')]_vars
    /\ []((rpc = "done" /\ chunk_size > 0) =>
             LET tokens == ChunksOf(input, chunk_size)
             IN  yields = Len(tokens) - BufferedOnly(tokens, FALSE))

\* C22 witness: a run in tokens of two characters has ended after several
\* tokens went into the buffer and a marker came out of it
C22_Witness ==
    /\ rpc = "done" /\ chunk_size = 2
    /\ BufferedOnly(ChunksOf(input, chunk_size), FALSE) > 3
    /\ Len(_sources) > Len(sources0) /\ yields > 1

LastAtBefore(s, ch, before) == Max({0} \cup {i \in 1..(before - 1) : s[i] = ch})

\* the marker a buffer completes: its first "]" and the last "[" before it
ClosedAt(buffer) == FirstAt(buffer, "]", 1)

OpenedAt(buffer) == LastAtBefore(buffer, "[", ClosedAt(buffer))

CompletesMarker(buffer, n) ==
    /\ ClosedAt(buffer) # 0 /\ OpenedAt(buffer) # 0
    /\ IsMarkerContent(SubSeq(buffer, OpenedAt(buffer) + 1, ClosedAt(buffer) - 1), n)

\* C23: when a token completes a marker with article numbers k1..km, the step
\* emits, as one output element, prefix + the ordinals joined by "," + suffix,
\* the i-th ordinal being what add_source returns for documents[ki - 1] in
\* the order of the marker (the same ordinal again for a document cited
\* twice), and leaves the buffer empty.
C23_MarkerRecomposed ==
    [][(TokenStep /\ CompletesMarker(ref \o TokenOf(pos, pos'), Len(documents))
          /\ (ref # <<>> \/ Contains(TokenOf(pos, pos'), "["))) =>
          LET buffer == ref \o TokenOf(pos, pos')
              i == OpenedAt(buffer)
              j == ClosedAt(buffer)
              ns == NumbersOf(SubSeq(buffer, i + 1, j - 1), Len(documents))
              cited == [k \in 1..Len(ns) |-> documents[ns[k]]]
              reg == Cite(_sources, cited)
              ords == [k \in 1..Len(ns) |-> Ordinal(reg, cited[k])]
          IN  /\ history' = history \o SubSeq(buffer, 1, i) \o join(ords)
                              \o SubSeq(buffer, j, Len(buffer))
              /\ _sources' = reg
              /\ yields' = yields + 1
              /\ ref' = <<>> /\ rpc' = "loop"]_vars

IsSuffix(s, t) == Len(s) <= Len(t) /\ SubSeq(t, Len(t) - Len(s) + 1, Len(t)) = s

\* the text that came before the buffered tokens
BeforeBuffer == SubSeq(input, 1, Len(input) - Len(ref))

\* C24: if the stream ends while a "[" is open, the buffered text is never
\* emitted: the buffer is the end of the input from the opening token on,
\* the final text is what was emitted before that token, no output element
\* and no source come from the buffered tokens, and no exception is raised.
C24_UnclosedMarkerDropped ==
    /\ []((rpc = "done" /\ ref # <<>>) =>
             /\ err = "none"
             /\ Contains(ref, "[") /\ ~Contains(ref, "]")
             /\ IsSuffix(ref, input)
             /\ ~Contains(BeforeBuffer, "[") => (history = BeforeBuffer /\ _sources = sources0))
    /\ [][(ref # <<>> /\ ref' # <<>> /\ rpc' # "raised") =>
             /\ history' = history /\ yields' = yields
             /\ _sources' = _sources /\ _ids' = _ids]_vars
    /\ [][(rpc = "loop" /\ pos = Len(input) /\ pos' = pos /\ ref # <<>>) =>
             (rpc' = "done" /\ ref' = ref /\ history' = history)]_vars

\* C24 witness: the stream ended with an opening token in the buffer, after
\* text had been emitted in two tokens
C24_Witness ==
    /\ rpc = "done" /\ ref # <<>> /\ yields > 1
    /\ history # <<>> /\ Len(history) + Len(ref) = Len(input)

\* the consumer is inside Queue.get and the queue is empty
Blocked == cpc = "l54" /\ _text = <<>>

\* C25: a __next__ call that finds the queue empty neither returns a value
\* nor signals the end nor raises while the queue stays empty, and once the
\* worker is over without a terminal push it stays blocked for ever.
C25_NextBlocksWithoutTerminal ==
    /\ [][Blocked => (cpc' = "l54" /\ received' = received)]_vars
    /\ []((Blocked /\ worker = "raised" /\ ~TerminalCalled) => []Blocked)

\* C25 witness: the consumer has taken every token and is blocked, the worker
\* having raised before any terminal push
C25_Witness ==
    /\ Blocked /\ worker = "raised" /\ ~TerminalCalled /\ ~_done
    /\ received # <<>> /\ received = pushed

\* C26: once the caller has abandoned the stream, the worker is told to stop:
\* the backend is not run for another chunk, so no callback begins after the
\* abandonment and the worker does not run on to its terminal chunk.
C26_AbandonStopsWorker ==
    [][cpc = "abandoned" => calls' = calls]_vars

\* the article numbers written anywhere in the input
ArticleNumbers == {ArticleInts(input, 1)[k] : k \in 1..Len(ArticleInts(input, 1))}

\* C27: every document the generator adds to the registry is documents[k-1]
\* for an article number k of the input with 1 <= k <= N; the marker
\* [ARTICLE 0] registers nothing.
C27_OnlyCitedDocumentsRegistered ==
    /\ \A i \in (Len(sources0) + 1)..Len(_sources) :
          \E k \in ArticleNumbers \cap 1..Len(documents) : _sources[i] = documents[k]
    /\ input = Marker(Article(0)) => _sources = sources0

\* C28: the consumer's end-of-sequence occurs only in states where the backend
\* has already signalled completion on this channel: a callback with a
\* terminal meta has been made before __next__ raises StopIteration, also
\* when the worker raised or finished in between.
C28_EndOnlyAfterTerminalSignal ==
    StreamEnded => \E i \in 1..Len(calls) : Closing(calls[i].meta)

\* C28 witness: the stream ended after non-terminal pushes and a terminal one
C28_Witness ==
    /\ cpc = "stopped" /\ Len(calls) > 2
    /\ ~Closing(calls[1].meta) /\ Closing(calls[Len(calls)].meta)

\* C29: in every reachable state of a registry, _ids and _sources have the
\* same length, _ids[i] is the id of _sources[i], and _ids holds no
\* duplicate, so every ordinal add_source returned indexes a document of the
\* id it was asked for.
C29_IdsMirrorSources ==
    /\ Len(_ids) = Len(_sources)
    /\ \A i \in 1..Len(_ids) : _ids[i] = _sources[i].id
    /\ \A i, j \in 1..Len(_ids) : _ids[i] = _ids[j] => i = j
    /\ \A k \in 1..Len(addLog) :
          /\ addLog[k].ret \in 1..Len(_sources)
          /\ _sources[addLog[k].ret].id = addLog[k].document.id

\* C29 witness: two documents are registered and a document of a registered
\* id, with other metadata, was added after them
C29_Witness ==
    /\ Len(_sources) = 2
    /\ \E k \in 3..Len(addLog) : addLog[k].document \notin {_sources[1], _sources[2]}

SubfeedNames == {subfeeds[k] : k \in 1..Len(subfeeds)}

\* the contents of the entries of a subfeed that parse
ParsableContents(name) ==
    {feed[name][i].content : i \in {j \in 1..Len(feed[name]) : feed[name][j].ok}}

\* the subfeeds a returned document names
NamedBy(doc) == {doc.meta.subfeeds[i] : i \in 1..Len(doc.meta.subfeeds)}

Returned == deduplicated_documents.docs

====
